---- MODULE Spec2Model ----
(***************************************************************************)
(* Model of generate_images_json.py: a directory scan, tag derivation from *)
(* file names, thumbnail generation and the images.json manifest.          *)
(*                                                                         *)
(* Strings are sequences of code points (ASCII), so that splitting,        *)
(* lower-casing, extension handling and sorting are computed, not assumed.  *)
(***************************************************************************)
EXTENDS Integers, Sequences, FiniteSets, TLC

VARIABLES
    fname,        \* filename_to_tags: the argument
    tags,         \* filename_to_tags: the returned list
    tpc           \* "in" before the call, "out" after it

VARIABLES
    root_exists,  \* whether IMAGE_FOLDER is a directory
    tree,         \* the files under IMAGE_FOLDER: [dir, name, mtime, link]
    corrupt,      \* the files of tree that cannot be processed: a regular file
                  \* the imaging library rejects, a symbolic link without target
    thumbs,       \* the files under THUMB_FOLDER: path -> [src, run]
    thumb_dirs,   \* the directories at and under THUMB_FOLDER
    manifest,     \* OUTPUT_FILE: <<>> when absent, else
                  \* <<[run, complete, data]>>; complete is FALSE for the file
                  \* opened for writing, truncated and not yet dumped into
    pc,           \* where the process is
    run,          \* number of the current run of the tool
    all_files,    \* scan_and_generate: all_files
    i,            \* scan_and_generate: loop index
    entries,      \* scan_and_generate: entries
    created,      \* scan_and_generate: created
    skipped,      \* scan_and_generate: skipped
    errors,       \* scan_and_generate: errors
    outcomes,     \* per processed file, the return statement make_thumbnail took
    prev,         \* the preceding run, when it ended over the present tree:
                  \* [complete, created]
    dirty         \* the image tree changed since the last run ended

tvars == <<fname, tags, tpc>>

rvars == <<root_exists, tree, corrupt, thumbs, thumb_dirs, manifest, pc,
           run, all_files, i, entries, created, skipped, errors,
           outcomes, prev, dirty>>

vars == <<tvars, rvars>>

---------------------------------------------------------------------------
(* Bounds of the model *)

\* longest exhaustively enumerated file name given to filename_to_tags
MaxLen == 4

\* most files in the image tree
MaxFiles == 3

\* most runs of the tool in one behaviour
MaxRuns == 2

---------------------------------------------------------------------------
(* Characters *)

CH_DOT == 46
CH_SLASH == 47
CH_BACKSLASH == 92

\* str.isspace / regex \s, restricted to ASCII
Whitespace == {9, 10, 11, 12, 13, 28, 29, 30, 31, 32}

\* regex \d, restricted to ASCII
Digits == 48..57

Max(S) == CHOOSE x \in S : \A y \in S : y <= x

\* str.lower(), restricted to ASCII
lower(s) == [k \in 1..Len(s) |-> IF s[k] \in 65..90 THEN s[k] + 32 ELSE s[k]]

\* str.rfind(c), 1-based; 0 when c does not occur (Python's -1)
rfind(p, c) ==
    LET S == {k \in 1..Len(p) : p[k] = c}
    IN  IF S = {} THEN 0 ELSE Max(S)

\* os.path.splitext: the extension starts at the last dot of the last path
\* component, unless only dots precede it in that component
splitext(p) ==
    LET sepIndex == rfind(p, CH_SLASH)
        dotIndex == rfind(p, CH_DOT)
    IN  IF dotIndex > sepIndex
           /\ \E k \in (sepIndex + 1)..(dotIndex - 1) : p[k] # CH_DOT
        THEN <<SubSeq(p, 1, dotIndex - 1), SubSeq(p, dotIndex, Len(p))>>
        ELSE <<p, <<>>>>

\* str.strip()
strip(s) ==
    LET keep == {k \in 1..Len(s) : s[k] \notin Whitespace}
    IN  IF keep = {} THEN <<>>
        ELSE SubSeq(s, CHOOSE a \in keep : \A b \in keep : a <= b, Max(keep))

---------------------------------------------------------------------------
(* Configuration *)

\* "img", "image", "pic", "photo", "copy", "final", "new", "old", "tmp"
WEAK_WORDS ==
    { <<105,109,103>>, <<105,109,97,103,101>>, <<112,105,99>>,
      <<112,104,111,116,111>>, <<99,111,112,121>>, <<102,105,110,97,108>>,
      <<110,101,119>>, <<111,108,100>>, <<116,109,112>> }

\* the character class of TAG_SEPARATORS = r"[_\-\s\.]+"
TAG_SEPARATORS == {95, 45, 46} \cup Whitespace

FILTER_WEAK_TAGS == TRUE

TAGS_FROM_FILENAME == TRUE

---------------------------------------------------------------------------
(* filename_to_tags *)

\* re.split(TAG_SEPARATORS, s): the pieces between maximal separator runs,
\* empty pieces at either end included
RECURSIVE re_split_from(_, _, _, _)
re_split_from(s, k, cur, acc) ==
    IF k > Len(s) THEN Append(acc, cur)
    ELSE IF s[k] \in TAG_SEPARATORS
         THEN IF k > 1 /\ s[k - 1] \in TAG_SEPARATORS
              THEN re_split_from(s, k + 1, cur, acc)
              ELSE re_split_from(s, k + 1, <<>>, Append(acc, cur))
         ELSE re_split_from(s, k + 1, Append(cur, s[k]), acc)

re_split(s) == re_split_from(s, 1, <<>>, <<>>)

\* re.fullmatch(r"\d+", part)
fullmatch_digits(part) ==
    Len(part) >= 1 /\ \A k \in 1..Len(part) : part[k] \in Digits

\* the length test written as len(part) < 1
weak_tag_short(part) ==
    \/ fullmatch_digits(part)
    \/ Len(part) < 1
    \/ part \in WEAK_WORDS

\* the three "continue" tests under FILTER_WEAK_TAGS
weak_tag(part) ==
    \/ fullmatch_digits(part)
    \/ Len(part) <= 1
    \/ part \in WEAK_WORDS

RECURSIVE tags_loop(_, _, _)
tags_loop(parts, k, acc) ==
    IF k > Len(parts) THEN acc
    ELSE LET part == strip(parts[k])
         IN  IF part = <<>> THEN tags_loop(parts, k + 1, acc)
             ELSE IF FILTER_WEAK_TAGS /\ weak_tag(part)
                  THEN tags_loop(parts, k + 1, acc)
                  ELSE tags_loop(parts, k + 1, Append(acc, part))

filename_to_tags(filename) ==
    LET name  == splitext(filename)[1]
        parts == re_split(lower(name))
    IN  tags_loop(parts, 1, <<>>)

---------------------------------------------------------------------------
(* Paths and the image tree *)

\* "images"
IMAGE_FOLDER == <<105,109,97,103,101,115>>

\* "thumbs"
THUMB_FOLDER == <<116,104,117,109,98,115>>

\* the flag switched on
THUMB_OVERWRITE_on == TRUE

THUMB_OVERWRITE == FALSE

THUMB_FORCE_JPEG == TRUE

\* ".jpg", ".jpeg", ".png", ".gif", ".webp", ".avif"
SUPPORTED_EXTENSIONS ==
    { <<46,106,112,103>>, <<46,106,112,101,103>>, <<46,112,110,103>>,
      <<46,103,105,102>>, <<46,119,101,98,112>>, <<46,97,118,105,102>> }

\* ".jpg"
EXT_JPG == <<46,106,112,103>>

\* os.path.join(a, b) for a relative b
join(a, b) == a \o <<CH_SLASH>> \o b

\* p.replace("\\", "/")
replace_backslash(p) ==
    [k \in 1..Len(p) |-> IF p[k] = CH_BACKSLASH THEN CH_SLASH ELSE p[k]]

\* the directory os.walk reports as root for the directory d of the tree,
\* d being the sequence of directory names below folder
RECURSIVE walk_root(_, _)
walk_root(folder, d) ==
    IF d = <<>> THEN folder
    ELSE join(walk_root(folder, SubSeq(d, 1, Len(d) - 1)), d[Len(d)])

\* os.path.relpath(root, folder) for a root that os.walk(folder) reports
relpath(root, folder) ==
    IF root = folder THEN <<CH_DOT>>
    ELSE SubSeq(root, Len(folder) + 2, Len(root))

\* Python's < on str: lexicographic by code point
RECURSIVE str_lt(_, _)
str_lt(a, b) ==
    IF b = <<>> THEN FALSE
    ELSE IF a = <<>> THEN TRUE
    ELSE IF a[1] # b[1] THEN a[1] < b[1]
    ELSE str_lt(Tail(a), Tail(b))

RECURSIVE insert_sorted(_, _)
insert_sorted(x, s) ==
    IF s = <<>> THEN <<x>>
    ELSE IF str_lt(x, s[1]) THEN <<x>> \o s
    ELSE <<s[1]>> \o insert_sorted(x, Tail(s))

\* a list of names left in the order the file system gave them
unsorted(s) == s

\* sorted(files) and dirs.sort()
RECURSIVE sorted(_)
sorted(s) ==
    IF s = <<>> THEN <<>>
    ELSE insert_sorted(s[1], sorted(Tail(s)))

\* the names of the files of directory d, in the order the file system
\* lists names (forder)
list_files(d, forder) ==
    SelectSeq(forder, LAMBDA n : \E f \in tree : f.dir = d /\ f.name = n)

\* the names of the subdirectories of directory d, in the order the file
\* system lists names (dorder)
list_dirs(d, dorder) ==
    SelectSeq(dorder, LAMBDA n :
        \E f \in tree : Len(f.dir) > Len(d) /\ SubSeq(f.dir, 1, Len(d) + 1) = Append(d, n))

\* the "if ext in SUPPORTED_EXTENSIONS" filter over one directory's files
RECURSIVE collect(_, _)
collect(root, files) ==
    IF files = <<>> THEN <<>>
    ELSE LET ext == lower(splitext(files[1])[2])
         IN  (IF ext \in SUPPORTED_EXTENSIONS THEN <<<<root, files[1]>>>> ELSE <<>>)
             \o collect(root, Tail(files))

\* os.walk(folder) with the loop body of scan_and_generate: the files of a
\* directory first, then its subdirectories in the order dirs.sort() left
RECURSIVE walk(_, _, _)
RECURSIVE walk_each(_, _, _, _)
walk(d, forder, dorder) ==
    LET dirs  == sorted(list_dirs(d, dorder))
        files == sorted(list_files(d, forder))
    IN  collect(walk_root(IMAGE_FOLDER, d), files) \o walk_each(d, dirs, forder, dorder)

walk_each(d, dirs, forder, dorder) ==
    IF dirs = <<>> THEN <<>>
    ELSE walk(Append(d, dirs[1]), forder, dorder)
         \o walk_each(d, Tail(dirs), forder, dorder)

\* every order in which the members of S can be listed
RECURSIVE Orders(_)
Orders(S) ==
    IF S = {} THEN {<<>>}
    ELSE UNION {{<<x>> \o t : t \in Orders(S \ {x})} : x \in S}

FileNames == {f.name : f \in tree}

DirNames == UNION {{f.dir[k] : k \in 1..Len(f.dir)} : f \in tree}

---------------------------------------------------------------------------
(* Dates *)

\* a number as n decimal digits, zero-padded
RECURSIVE digits(_, _)
digits(v, n) ==
    IF n = 0 THEN <<>> ELSE Append(digits(v \div 10, n - 1), 48 + (v % 10))

\* datetime.fromtimestamp(mtime, tz=utc).strftime("%Y-%m-%dT%H:%M:%SZ") for a
\* modification time of whole seconds since the epoch
strftime(mtime) ==
    LET days == mtime \div 86400
        rem  == mtime % 86400
        z    == days + 719468
        era  == z \div 146097
        doe  == z - era * 146097
        yoe  == (doe - doe \div 1460 + doe \div 36524 - doe \div 146096) \div 365
        doy  == doe - (365 * yoe + yoe \div 4 - yoe \div 100)
        mp   == (5 * doy + 2) \div 153
        d    == doy - (153 * mp + 2) \div 5 + 1
        m    == IF mp < 10 THEN mp + 3 ELSE mp - 9
        y    == yoe + era * 400 + (IF m <= 2 THEN 1 ELSE 0)
    IN  digits(y, 4) \o <<45>> \o digits(m, 2) \o <<45>> \o digits(d, 2) \o <<84>>
        \o digits(rem \div 3600, 2) \o <<58>> \o digits((rem % 3600) \div 60, 2)
        \o <<58>> \o digits(rem % 60, 2) \o <<90>>

\* the sources that can be neither opened nor stat'ed: symbolic links whose
\* target is missing (os.walk lists them among the files)
unopenable ==
    {join(walk_root(IMAGE_FOLDER, f.dir), f.name) : f \in {g \in corrupt : g.link}}

\* os.path.getmtime(src_path) raises
getmtime_raises(src_path) == src_path \in unopenable

\* os.path.getmtime(src_path), when it returns
getmtime(src_path) ==
    (CHOOSE f \in tree : join(walk_root(IMAGE_FOLDER, f.dir), f.name) = src_path).mtime

---------------------------------------------------------------------------
(* make_thumbnail *)

\* the sources for which the try block of make_thumbnail raises in the
\* imaging library
undecodable == {join(walk_root(IMAGE_FOLDER, f.dir), f.name) : f \in corrupt}

\* where the imaging library can raise for an undecodable source: in
\* Image.open and the processing before os.makedirs ("open"), or in img.save
\* after it ("save")
fail_stages(src_path) ==
    IF src_path \in unopenable THEN {"open"} ELSE {"open", "save"}

\* os.path.dirname(p)
dirname(p) == SubSeq(p, 1, rfind(p, CH_SLASH) - 1)

\* the directory d and the directories above it
with_parents(d) ==
    {d} \cup {SubSeq(d, 1, k - 1) : k \in {j \in 1..Len(d) : d[j] = CH_SLASH}}

\* os.path.exists(p): a file or a directory
path_exists(fs, dirs, p) == p \in DOMAIN fs \/ p \in dirs

\* os.makedirs(d, exist_ok=True) raises: d or a directory above it is a file
makedirs_raises(fs, d) == d = <<>> \/ \E q \in with_parents(d) : q \in DOMAIN fs

\* os.makedirs(d, exist_ok=True), when it returns
makedirs(dirs, d) == dirs \cup with_parents(d)

\* img.save under ".jpg" appended once more to the path
img_save_elsewhere(fs, thumb_path, content) ==
    [p \in DOMAIN fs \cup {thumb_path \o EXT_JPG} |->
        IF p = thumb_path \o EXT_JPG THEN content ELSE fs[p]]

\* img.save(thumb_path, ...): the file at thumb_path is (re)written
img_save(fs, thumb_path, content) ==
    [p \in DOMAIN fs \cup {thumb_path} |-> IF p = thumb_path THEN content ELSE fs[p]]

\* the early-return test of make_thumbnail
thumb_is_kept(fs, dirs, thumb_path) ==
    ~THUMB_OVERWRITE /\ path_exists(fs, dirs, thumb_path)

\* result: the value returned; fs, dirs: the files and directories of the
\* thumbnail folder afterwards; outcome: which return statement was taken.
\* stage says where the library raises if src_path is undecodable.
make_thumbnail(src_path, thumb_path, fs, dirs, stamp, stage) ==
    IF thumb_is_kept(fs, dirs, thumb_path)
    THEN [result |-> FALSE, fs |-> fs, dirs |-> dirs, outcome |-> "skipped"]
    ELSE IF src_path \in undecodable /\ stage = "open"
    THEN [result |-> FALSE, fs |-> fs, dirs |-> dirs, outcome |-> "failed"]
    ELSE IF makedirs_raises(fs, dirname(thumb_path))
    THEN [result |-> FALSE, fs |-> fs, dirs |-> dirs, outcome |-> "failed"]
    ELSE IF src_path \in undecodable \/ thumb_path \in dirs
    THEN [result |-> FALSE, fs |-> fs,
          dirs |-> makedirs(dirs, dirname(thumb_path)), outcome |-> "failed"]
    ELSE [result |-> TRUE,
          fs |-> img_save(fs, thumb_path,
                          [src |-> src_path, run |-> stamp, whole |-> TRUE]),
          dirs |-> makedirs(dirs, dirname(thumb_path)),
          outcome |-> "created"]

\* what a KeyboardInterrupt raised inside make_thumbnail, which "except
\* Exception" does not catch, can leave of the thumbnail folder: some or all
\* of the directories of os.makedirs and no file, or all of them and the
\* file img.save has opened, written in part or in full
make_thumbnail_cut(src_path, thumb_path, fs, dirs, stamp) ==
    IF \/ thumb_is_kept(fs, dirs, thumb_path)
       \/ src_path \in unopenable
       \/ makedirs_raises(fs, dirname(thumb_path))
    THEN {}
    ELSE LET d == dirname(thumb_path)
         IN  {[fs |-> fs, dirs |-> makedirs(dirs, q)] : q \in with_parents(d)}
             \cup (IF src_path \in undecodable \/ thumb_path \in dirs
                   THEN {}
                   ELSE {[fs |-> img_save(fs, thumb_path,
                                     [src |-> src_path, run |-> stamp, whole |-> w]),
                          dirs |-> makedirs(dirs, d)] : w \in BOOLEAN})

---------------------------------------------------------------------------
(* scan_and_generate and main *)

\* the thumbnail path of the file filename found in root
thumb_path_of(root, filename, force_jpeg) ==
    LET name_noext == splitext(filename)[1]
        thumb_ext  == IF force_jpeg THEN EXT_JPG ELSE lower(splitext(filename)[2])
        thumb_name == name_noext \o thumb_ext
        rel_subdir == relpath(root, IMAGE_FOLDER)
    IN  IF rel_subdir = <<CH_DOT>>
        THEN join(THUMB_FOLDER, thumb_name)
        ELSE join(join(THUMB_FOLDER, rel_subdir), thumb_name)

\* the loop of scan_and_generate returning after its first iteration
scan_done_early(k, total) == k > 1 \/ k > total

\* the for loop over all_files is exhausted
scan_done(k, total) == k > total

\* entries.append(record)
entries_append(es, rec) == Append(es, rec)

\* main writing whatever scan_and_generate returned
not_entries_never(es) == FALSE

\* "if not entries" in main
not_entries(es) == es = <<>>

Idle == pc \in {"idle", "done", "interrupted", "crashed"}

\* main() is started
StartRun ==
    /\ Idle
    /\ run < MaxRuns
    /\ run' = run + 1
    /\ pc' = "start"
    /\ prev' = IF pc = "done" /\ ~dirty
                THEN [complete |-> TRUE, created |-> created]
                ELSE [complete |-> FALSE, created |-> 0]
    /\ dirty' = FALSE
    /\ all_files' = <<>>
    /\ i' = 1
    /\ entries' = <<>>
    /\ outcomes' = <<>>
    /\ created' = 0
    /\ skipped' = 0
    /\ errors' = 0
    /\ UNCHANGED <<root_exists, tree, corrupt, thumbs, thumb_dirs, manifest>>

\* scan_and_generate: the folder is not a directory
ScanMissingRoot ==
    /\ pc = "start"
    /\ ~root_exists
    /\ pc' = "scanned"
    /\ UNCHANGED <<root_exists, tree, corrupt, thumbs, thumb_dirs, manifest,
                   run, all_files, i, entries, created, skipped, errors,
                   outcomes, prev, dirty>>

\* scan_and_generate: the walk that fills all_files, for any order in which
\* the file system lists names
ScanCollect ==
    /\ pc = "start"
    /\ root_exists
    /\ \E forder \in Orders(FileNames), dorder \in Orders(DirNames) :
          all_files' = walk(<<>>, forder, dorder)
    /\ i' = 1
    /\ pc' = "loop"
    /\ UNCHANGED <<root_exists, tree, corrupt, thumbs, thumb_dirs, manifest,
                   run, entries, created, skipped, errors, outcomes,
                   prev, dirty>>

\* scan_and_generate: one iteration of the loop over all_files
LoopIter ==
    /\ pc = "loop"
    /\ ~scan_done(i, Len(all_files))
    /\ LET root       == all_files[i][1]
           filename   == all_files[i][2]
           src_path   == join(root, filename)
           rel_path   == replace_backslash(src_path)
           thumb_path == thumb_path_of(root, filename, THUMB_FORCE_JPEG)
           thumb_rel  == replace_backslash(thumb_path)
       IN  /\ ~getmtime_raises(src_path)
           /\ \E stage \in fail_stages(src_path) :
                 LET r == make_thumbnail(src_path, thumb_path, thumbs, thumb_dirs, run, stage)
                     date_str  == strftime(getmtime(src_path))
                     file_tags == IF TAGS_FROM_FILENAME THEN filename_to_tags(filename) ELSE <<>>
                 IN  /\ thumbs' = r.fs
                     /\ thumb_dirs' = r.dirs
                     /\ outcomes' = Append(outcomes, r.outcome)
                     /\ created' = (IF r.result = TRUE THEN created + 1 ELSE created)
                     /\ skipped' = (IF r.result = FALSE THEN skipped + 1 ELSE skipped)
                     /\ errors' = (IF r.result \notin {TRUE, FALSE} THEN errors + 1 ELSE errors)
                     /\ entries' = entries_append(entries,
                                      [file |-> rel_path, thumb |-> thumb_rel,
                                       date |-> date_str, tags |-> file_tags])
    /\ i' = i + 1
    /\ UNCHANGED <<root_exists, tree, corrupt, manifest, pc,
                   run, all_files, prev, dirty>>

\* scan_and_generate: an iteration in which os.path.getmtime raises, after
\* make_thumbnail has returned and been counted; the exception is caught
\* nowhere and ends the process
LoopCrash ==
    /\ pc = "loop"
    /\ ~scan_done(i, Len(all_files))
    /\ LET root       == all_files[i][1]
           filename   == all_files[i][2]
           src_path   == join(root, filename)
           thumb_path == thumb_path_of(root, filename, THUMB_FORCE_JPEG)
       IN  /\ getmtime_raises(src_path)
           /\ \E stage \in fail_stages(src_path) :
                 LET r == make_thumbnail(src_path, thumb_path, thumbs, thumb_dirs, run, stage)
                 IN  /\ thumbs' = r.fs
                     /\ thumb_dirs' = r.dirs
                     /\ outcomes' = Append(outcomes, r.outcome)
                     /\ created' = (IF r.result = TRUE THEN created + 1 ELSE created)
                     /\ skipped' = (IF r.result = FALSE THEN skipped + 1 ELSE skipped)
                     /\ errors' = (IF r.result \notin {TRUE, FALSE} THEN errors + 1 ELSE errors)
    /\ pc' = "crashed"
    /\ UNCHANGED <<root_exists, tree, corrupt, manifest,
                   run, all_files, i, entries, prev, dirty>>

\* scan_and_generate returns entries
ScanReturn ==
    /\ pc = "loop"
    /\ scan_done(i, Len(all_files))
    /\ pc' = "scanned"
    /\ UNCHANGED <<root_exists, tree, corrupt, thumbs, thumb_dirs, manifest,
                   run, all_files, i, entries, created, skipped, errors,
                   outcomes, prev, dirty>>

\* main: nothing found, return without writing
MainEmpty ==
    /\ pc = "scanned"
    /\ not_entries(entries)
    /\ pc' = "done"
    /\ UNCHANGED <<root_exists, tree, corrupt, thumbs, thumb_dirs, manifest,
                   run, all_files, i, entries, created, skipped, errors,
                   outcomes, prev, dirty>>

\* main: open(OUTPUT_FILE, "w") creates the file or truncates it
MainOpen ==
    /\ pc = "scanned"
    /\ ~not_entries(entries)
    /\ manifest' = <<[run |-> run, complete |-> FALSE, data |-> <<>>]>>
    /\ pc' = "writing"
    /\ UNCHANGED <<root_exists, tree, corrupt, thumbs, thumb_dirs,
                   run, all_files, i, entries, created, skipped, errors,
                   outcomes, prev, dirty>>

\* main: json.dump(entries, f) and the close of the file
MainDump ==
    /\ pc = "writing"
    /\ manifest' = <<[run |-> run, complete |-> TRUE, data |-> entries]>>
    /\ pc' = "done"
    /\ UNCHANGED <<root_exists, tree, corrupt, thumbs, thumb_dirs,
                   run, all_files, i, entries, created, skipped, errors,
                   outcomes, prev, dirty>>

\* the process is interrupted from outside
Interrupt ==
    /\ pc \in {"start", "loop", "scanned", "writing"}
    /\ pc' = "interrupted"
    /\ UNCHANGED <<root_exists, tree, corrupt, thumbs, thumb_dirs, manifest,
                   run, all_files, i, entries, created, skipped, errors,
                   outcomes, prev, dirty>>

\* the process is interrupted from outside inside make_thumbnail, in the
\* iteration for all_files[i]; what the iteration had computed is lost with
\* the process
InterruptIter ==
    /\ pc = "loop"
    /\ ~scan_done(i, Len(all_files))
    /\ LET root       == all_files[i][1]
           filename   == all_files[i][2]
           src_path   == join(root, filename)
           thumb_path == thumb_path_of(root, filename, THUMB_FORCE_JPEG)
       IN  \E r \in make_thumbnail_cut(src_path, thumb_path, thumbs, thumb_dirs, run) :
              /\ thumbs' = r.fs
              /\ thumb_dirs' = r.dirs
    /\ pc' = "interrupted"
    /\ UNCHANGED <<root_exists, tree, corrupt, manifest,
                   run, all_files, i, entries, created, skipped, errors,
                   outcomes, prev, dirty>>

---------------------------------------------------------------------------
(* The operator's changes to the image tree: one between two runs, while *)
(* a run is still to come                                                  *)

\* "a.jpg", "a.png", "a.PNG", "B.PNG", "a.txt"
N_a_jpg == <<97,46,106,112,103>>
N_a_png == <<97,46,112,110,103>>
N_a_PNG == <<97,46,80,78,71>>
N_B_PNG == <<66,46,80,78,71>>
N_a_txt == <<97,46,116,120,116>>

\* directories "s/T", "a.jpg"
D_s_T == <<<<115>>, <<84>>>>
D_a_jpg == <<<<97,46,106,112,103>>>>

\* the files an image tree is drawn from; mtime in seconds since the epoch;
\* link: the file is a symbolic link
Universe ==
    { [dir |-> <<>>,    name |-> N_a_jpg, mtime |-> 1700000000, link |-> FALSE],
      [dir |-> <<>>,    name |-> N_a_png, mtime |-> 951782400,  link |-> FALSE],
      [dir |-> <<>>,    name |-> N_a_txt, mtime |-> 0,          link |-> FALSE],
      [dir |-> D_s_T,   name |-> N_a_PNG, mtime |-> 1709251199, link |-> TRUE],
      [dir |-> D_a_jpg, name |-> N_B_PNG, mtime |-> 86399,      link |-> FALSE] }

\* no name of a directory is both a file and a subdirectory
ValidTree(t) ==
    \A f, g \in t :
        ~(Len(g.dir) > Len(f.dir) /\ SubSeq(g.dir, 1, Len(f.dir) + 1) = Append(f.dir, f.name))

\* a file is removed
RemoveFile ==
    /\ pc \in {"done", "interrupted", "crashed"}
    /\ run < MaxRuns
    /\ ~dirty
    /\ \E f \in tree :
          /\ tree' = tree \ {f}
          /\ corrupt' = corrupt \ {f}
    /\ dirty' = TRUE
    /\ UNCHANGED <<root_exists, thumbs, thumb_dirs, manifest, pc, run,
                   all_files, i, entries, created, skipped, errors, outcomes, prev>>

\* a file is renamed within its directory to a name that is free there; it
\* keeps its modification time and what it is
RenameFile ==
    /\ pc \in {"done", "interrupted", "crashed"}
    /\ run < MaxRuns
    /\ ~dirty
    /\ \E f \in tree, u \in Universe :
          LET g == [f EXCEPT !.name = u.name]
          IN  /\ u.dir = f.dir
              /\ \A h \in tree : ~(h.dir = f.dir /\ h.name = u.name)
              /\ ValidTree((tree \ {f}) \cup {g})
              /\ tree' = (tree \ {f}) \cup {g}
              /\ corrupt' = IF f \in corrupt THEN (corrupt \ {f}) \cup {g} ELSE corrupt
    /\ dirty' = TRUE
    /\ UNCHANGED <<root_exists, thumbs, thumb_dirs, manifest, pc, run,
                   all_files, i, entries, created, skipped, errors, outcomes, prev>>

\* the image folder is removed
RemoveRoot ==
    /\ pc \in {"done", "interrupted", "crashed"}
    /\ run < MaxRuns
    /\ ~dirty
    /\ root_exists
    /\ root_exists' = FALSE
    /\ tree' = {}
    /\ corrupt' = {}
    /\ dirty' = TRUE
    /\ UNCHANGED <<thumbs, thumb_dirs, manifest, pc, run,
                   all_files, i, entries, created, skipped, errors, outcomes, prev>>

---------------------------------------------------------------------------
(* The tool run repeatedly over a changing image tree *)

TagIdle ==
    /\ fname = <<>>
    /\ tags = <<>>
    /\ tpc = "out"

RunInit ==
    /\ root_exists = TRUE
    /\ tree \in {t \in SUBSET Universe : Cardinality(t) <= MaxFiles /\ ValidTree(t)}
    /\ corrupt \in SUBSET tree
    /\ thumbs = <<>>
    /\ thumb_dirs = {}
    /\ manifest = <<>>
    /\ pc = "idle"
    /\ run = 0
    /\ all_files = <<>>
    /\ i = 1
    /\ entries = <<>>
    /\ created = 0
    /\ skipped = 0
    /\ errors = 0
    /\ outcomes = <<>>
    /\ prev = [complete |-> FALSE, created |-> 0]
    /\ dirty = FALSE

Init == TagIdle /\ RunInit

Next ==
    \/ StartRun /\ UNCHANGED tvars
    \/ ScanMissingRoot /\ UNCHANGED tvars
    \/ ScanCollect /\ UNCHANGED tvars
    \/ LoopIter /\ UNCHANGED tvars
    \/ LoopCrash /\ UNCHANGED tvars
    \/ ScanReturn /\ UNCHANGED tvars
    \/ MainEmpty /\ UNCHANGED tvars
    \/ MainOpen /\ UNCHANGED tvars
    \/ MainDump /\ UNCHANGED tvars
    \/ Interrupt /\ UNCHANGED tvars
    \/ InterruptIter /\ UNCHANGED tvars
    \/ RemoveFile /\ UNCHANGED tvars
    \/ RenameFile /\ UNCHANGED tvars
    \/ RemoveRoot /\ UNCHANGED tvars

Spec == Init /\ [][Next]_vars

---------------------------------------------------------------------------
(* Tag derivation on its own: every short name over TagAlphabet, and the   *)
(* documented examples                                                     *)

\* o l D 7 _ . space -
TagAlphabet == {111, 108, 68, 55, 95, 46, 32, 45}

RECURSIVE SeqsUpTo(_, _)
SeqsUpTo(A, n) ==
    IF n = 0 THEN {<<>>}
    ELSE LET shorter == SeqsUpTo(A, n - 1)
         IN  shorter \cup {Append(s, c) : s \in shorter, c \in A}

\* "cute-cat 2024.jpg"
EX_cute_cat == <<99,117,116,101,45,99,97,116,32,50,48,50,52,46,106,112,103>>
\* "IMG_0001.png"
EX_IMG_0001 == <<73,77,71,95,48,48,48,49,46,112,110,103>>
\* "a.jpg"
EX_a == <<97,46,106,112,103>>
\* "cat_old-cat.cat.png"
EX_repeat == <<99,97,116,95,111,108,100,45,99,97,116,46,99,97,116,46,112,110,103>>

TagInputs ==
    SeqsUpTo(TagAlphabet, MaxLen) \cup {EX_cute_cat, EX_IMG_0001, EX_a, EX_repeat}

TagArgs ==
    /\ fname \in TagInputs
    /\ tags = <<>>
    /\ tpc = "in"

RunIdle ==
    /\ root_exists = TRUE
    /\ tree = {}
    /\ corrupt = {}
    /\ thumbs = <<>>
    /\ thumb_dirs = {}
    /\ manifest = <<>>
    /\ pc = "idle"
    /\ run = 0
    /\ all_files = <<>>
    /\ i = 1
    /\ entries = <<>>
    /\ created = 0
    /\ skipped = 0
    /\ errors = 0
    /\ outcomes = <<>>
    /\ prev = [complete |-> FALSE, created |-> 0]
    /\ dirty = FALSE

\* filename_to_tags(fname) is called
DeriveTags ==
    /\ tpc = "in"
    /\ tags' = (IF TAGS_FROM_FILENAME THEN filename_to_tags(fname) ELSE <<>>)
    /\ tpc' = "out"
    /\ UNCHANGED fname

TagNext == DeriveTags /\ UNCHANGED rvars

TagInit == TagArgs /\ RunIdle

SpecTags == TagInit /\ [][TagNext]_vars

---------------------------------------------------------------------------
(* Vocabulary of the properties, stated without the operators above where  *)
(* the property is about what those operators compute                       *)

src_path_of(f) == join(walk_root(IMAGE_FOLDER, f.dir), f.name)

\* name ends, case-insensitively, in the extension e, with a character other
\* than a dot before it
EndsWithExt(name, e) ==
    /\ Len(name) > Len(e)
    /\ \A k \in 1..Len(e) :
          LET c == name[Len(name) - Len(e) + k]
          IN  c = e[k] \/ (c \in 65..90 /\ c + 32 = e[k])
    /\ \E k \in 1..(Len(name) - Len(e)) : name[k] # CH_DOT

\* the files of the tree with an allow-listed extension
Matched == {f \in tree : \E e \in SUPPORTED_EXTENSIONS : EndsWithExt(f.name, e)}

\* a precedes b lexicographically
LexLess(a, b) ==
    \E k \in 1..Len(b) :
        /\ \A j \in 1..(k - 1) : j <= Len(a) /\ a[j] = b[j]
        /\ k > Len(a) \/ a[k] < b[k]

\* file f is met before file g by a walk that lists a directory's files in
\* lexicographic order and then its subdirectories in lexicographic order
WalkBefore(f, g) ==
    \/ f.dir = g.dir /\ LexLess(f.name, g.name)
    \/ Len(f.dir) < Len(g.dir) /\ SubSeq(g.dir, 1, Len(f.dir)) = f.dir
    \/ \E k \in 1..Len(f.dir) :
          /\ k <= Len(g.dir)
          /\ SubSeq(f.dir, 1, k - 1) = SubSeq(g.dir, 1, k - 1)
          /\ LexLess(f.dir[k], g.dir[k])

Count(s, v) == Cardinality({k \in 1..Len(s) : s[k] = v})

\* the current run has written the manifest
WroteManifest ==
    pc = "done" /\ manifest # <<>> /\ manifest[1].run = run /\ manifest[1].complete

\* the scan of the current run has filled all_files from the present tree
Scanned == pc \in {"loop", "scanned", "writing", "done", "crashed"} /\ ~dirty

---------------------------------------------------------------------------
(* C1 *)

\* C1: when scan_and_generate has returned, errors is the number of files
\* whose thumbnail generation failed, and those files are counted neither
\* in created nor in skipped.
C1_FailuresCountedAsErrors ==
    pc \in {"scanned", "done"} =>
        /\ errors = Count(outcomes, "failed")
        /\ skipped = Count(outcomes, "skipped")
        /\ created = Count(outcomes, "created")

---------------------------------------------------------------------------
(* C2 *)

\* C2: no run is ended by a file's failure, and a manifest that main has
\* written holds, while the tree is as the run found it, one record per
\* matched file, in the order of the scan, whatever make_thumbnail did for
\* each.
C2_OneRecordPerMatchedFile ==
    /\ pc # "crashed"
    /\ WroteManifest /\ ~dirty =>
          LET data == manifest[1].data
          IN  /\ Len(data) = Cardinality(Matched)
              /\ Len(data) = Len(all_files)
              /\ \A k \in 1..Len(data) :
                    data[k].file = replace_backslash(join(all_files[k][1], all_files[k][2]))

---------------------------------------------------------------------------
(* C3 *)

\* C3: a run over a missing root, or over a tree without a matched file,
\* collects no record and changes neither the manifest nor any thumbnail.
C3_EmptyScanWritesNothing ==
    [][(pc \in {"start", "loop", "scanned"} /\ (~root_exists \/ Matched = {})) =>
          /\ entries' = <<>>
          /\ manifest' = manifest
          /\ thumbs' = thumbs]_vars

\* a finished run over a tree holding only an unsupported file, with the
\* manifest and a thumbnail of an earlier run still in place
C3_Witness ==
    /\ pc = "done"
    /\ root_exists /\ tree # {} /\ Matched = {}
    /\ manifest # <<>> /\ manifest[1].run < run
    /\ DOMAIN thumbs # {}

\* a finished run over a missing root, the earlier manifest still in place
C3_WitnessNoRoot ==
    /\ pc = "done"
    /\ ~root_exists
    /\ manifest # <<>> /\ manifest[1].run < run

---------------------------------------------------------------------------
(* C4 *)

\* C4: a run that follows a complete run over the unchanged tree creates no
\* thumbnail and skips as many as the preceding run created.
C4_RerunSkipsWhatWasCreated ==
    (pc = "done" /\ prev.complete) =>
        /\ created = 0
        /\ skipped = prev.created

---------------------------------------------------------------------------
(* C5 *)

\* C5: all_files holds exactly the matched files of the tree, each once, in
\* walk order, whatever order the file system listed the names in.
C5_ScanIsSortedAndFiltered ==
    Scanned /\ root_exists =>
        /\ Len(all_files) = Cardinality(Matched)
        /\ {all_files[k] : k \in 1..Len(all_files)}
              = {<<walk_root(IMAGE_FOLDER, f.dir), f.name>> : f \in Matched}
        /\ \A k, l \in 1..Len(all_files) :
              k < l =>
                 \E f, g \in Matched :
                    /\ all_files[k] = <<walk_root(IMAGE_FOLDER, f.dir), f.name>>
                    /\ all_files[l] = <<walk_root(IMAGE_FOLDER, g.dir), g.name>>
                    /\ WalkBefore(f, g)

\* a scan of two matched files from two directories, one with an upper-case
\* extension, next to an unsupported file
C5_Witness ==
    /\ Scanned
    /\ Len(all_files) = 2
    /\ all_files[1][1] # all_files[2][1]
    /\ Matched # tree
    /\ \E f \in Matched : f.name = N_a_PNG

---------------------------------------------------------------------------
(* C6 *)

\* the position after the extension-stripped part of a file name
StemEnd(name) ==
    LET dots == {k \in 1..Len(name) : name[k] = CH_DOT /\ \E j \in 1..(k - 1) : name[j] # CH_DOT}
    IN  IF dots = {} THEN Len(name) ELSE Max(dots) - 1

IsSeparator(c) == c \in {95, 45, 46, 32, 9, 10, 11, 12, 13}

LowerChar(c) == IF c \in 65..90 THEN c + 32 ELSE c

\* where the tokens of name start: a non-separator at the start or after a
\* separator
TokenStarts(name) ==
    {a \in 1..StemEnd(name) :
        /\ ~IsSeparator(name[a])
        /\ a = 1 \/ IsSeparator(name[a - 1])}

\* the last position of the token starting at a
TokenEnd(name, a) ==
    CHOOSE b \in a..StemEnd(name) :
        /\ \A k \in a..b : ~IsSeparator(name[k])
        /\ b = StemEnd(name) \/ IsSeparator(name[b + 1])

Token(name, a) == [k \in 1..(TokenEnd(name, a) - a + 1) |-> LowerChar(name[a + k - 1])]

IsWeak(t) ==
    \/ \A k \in 1..Len(t) : t[k] \in 48..57
    \/ Len(t) <= 1
    \/ t \in WEAK_WORDS

KeptStarts(name) == {a \in TokenStarts(name) : ~IsWeak(Token(name, a))}

\* C6: the tags are the lowercased tokens of the extension-stripped name
\* that are not weak, in their order, repetitions kept; the documented
\* examples give the documented results.
C6_TagsAreTheStrongTokens ==
    tpc = "out" =>
        /\ Len(tags) = Cardinality(KeptStarts(fname))
        /\ \A a \in KeptStarts(fname) :
              tags[1 + Cardinality({b \in KeptStarts(fname) : b < a})] = Token(fname, a)
        /\ fname = EX_cute_cat => tags = << <<99,117,116,101>>, <<99,97,116>> >>
        /\ fname = EX_IMG_0001 => tags = <<>>
        /\ fname = EX_a => tags = <<>>

\* "cat_old-cat.cat.png": a denylisted token dropped, a repeated one kept
C6_Witness ==
    /\ tpc = "out"
    /\ fname = EX_repeat
    /\ tags = << <<99,97,116>>, <<99,97,116>>, <<99,97,116>> >>

---------------------------------------------------------------------------
(* C7 *)

\* C7: no step rewrites or removes a thumbnail that exists.
C7_ThumbnailsAreKept ==
    [][\A p \in DOMAIN thumbs : p \in DOMAIN thumbs' /\ thumbs'[p] = thumbs[p]]_vars

\* after a later complete run, a thumbnail of an earlier run whose source
\* is gone, and a thumbnail the later run met and skipped
C7_Witness ==
    /\ pc = "done"
    /\ \E p \in DOMAIN thumbs :
          /\ thumbs[p].run < run
          /\ \A f \in tree : src_path_of(f) # thumbs[p].src
    /\ Count(outcomes, "skipped") >= 1

---------------------------------------------------------------------------
(* C8 *)

\* C8: the manifest changes only in a step taken after every matched file
\* has been through make_thumbnail and has its record.
C8_ManifestWrittenLast ==
    [][manifest' # manifest =>
          /\ pc \in {"scanned", "writing"}
          /\ i > Len(all_files)
          /\ Len(outcomes) = Cardinality(Matched)
          /\ Len(entries) = Cardinality(Matched)]_vars

\* a run interrupted in its loop: a thumbnail written, files left, and no
\* manifest
C8_Witness ==
    /\ pc = "interrupted"
    /\ i <= Len(all_files)
    /\ \E p \in DOMAIN thumbs : thumbs[p].run = run
    /\ manifest = <<>>

---------------------------------------------------------------------------
(* C9 *)

\* C9: records of distinct files carry distinct thumbnail paths.
C9_ThumbPathsAreDistinct ==
    \A k, l \in 1..Len(entries) :
        entries[k].file # entries[l].file => entries[k].thumb # entries[l].thumb

---------------------------------------------------------------------------
(* C10 *)

\* C10 as claimed: after a run that wrote the manifest, every record's thumb
\* names a thumbnail file that exists.
C10_EveryThumbExists ==
    WroteManifest =>
        \A k \in 1..Len(manifest[1].data) : manifest[1].data[k].thumb \in DOMAIN thumbs

\* C10, amended: after a run that wrote the manifest, the thumb of every
\* record whose file make_thumbnail created a thumbnail for names a
\* thumbnail file, and the thumb of every record whose file it skipped names
\* a path that exists, a thumbnail file or a directory.
C10_ThumbExistsUnlessFailed ==
    WroteManifest =>
        \A k \in 1..Len(manifest[1].data) :
            /\ outcomes[k] = "created" => manifest[1].data[k].thumb \in DOMAIN thumbs
            /\ outcomes[k] = "skipped" =>
                  manifest[1].data[k].thumb \in DOMAIN thumbs \cup thumb_dirs

\* a written manifest of a run with a created, a skipped and a failed file
C10_Witness ==
    /\ WroteManifest
    /\ Count(outcomes, "created") >= 1
    /\ Count(outcomes, "skipped") >= 1
    /\ Count(outcomes, "failed") >= 1

\* a written manifest with the record of a skipped file whose thumb names a
\* directory of the thumbnail folder
C10_WitnessDirectory ==
    /\ WroteManifest
    /\ \E k \in 1..Len(outcomes) :
          outcomes[k] = "skipped" /\ manifest[1].data[k].thumb \in thumb_dirs

====
